---- MODULE Spec2Model ----
(***************************************************************************)
(* Model of src/src/index.ts: the orchestration of the llvm-cxxfilt wasm   *)
(* engine behind the demangler page.  One action per handler, split at     *)
(* the handler's awaits (the engine factory, callMain, the clipboard       *)
(* write); everything between two awaits is one atomic step of the single  *)
(* JavaScript thread.                                                      *)
(***************************************************************************)
EXTENDS Integers, Sequences, FiniteSets, TLC

\* ------------------------------------------------------------------ bounds
\* number of submit clicks followed in one behaviour
MaxSubmits == 2
\* number of lines one engine instance emits (construction and batch together)
MaxEmit == 2
\* length of a text the user types into the input field
MaxLen == 1
\* number of copy clicks followed in one behaviour
MaxCopies == 1
\* length of a submitted text where only the splitting of the input is followed
SplitLen == 5

\* ------------------------------------------------------------------ strings
\* A string is a sequence of characters.  "x" stands for any character that
\* is not white space; an example symbol is kept as one unbreakable token.
Whitespace == {" ", "\n"}
Chars == {"x", " ", "\n"}

RECURSIVE StringsUpTo(_)
StringsUpTo(n) ==
    IF n = 0 THEN {<<>>}
    ELSE LET shorter == StringsUpTo(n - 1)
         IN  shorter \cup {Append(s, c) : s \in {t \in shorter : Len(t) = n - 1}, c \in Chars}

\* the texts the user can type into mangledInput
TypedInputs == StringsUpTo(MaxLen)

\* String.prototype.trim
RECURSIVE TrimStart(_)
TrimStart(s) ==
    IF s # <<>> /\ Head(s) \in Whitespace THEN TrimStart(Tail(s)) ELSE s

RECURSIVE TrimEnd(_)
TrimEnd(s) ==
    IF s # <<>> /\ s[Len(s)] \in Whitespace THEN TrimEnd(SubSeq(s, 1, Len(s) - 1)) ELSE s

trim(s) == TrimEnd(TrimStart(s))

\* String.prototype.split('\n'): always at least one entry
RECURSIVE SplitFrom(_, _, _)
SplitFrom(s, cur, acc) ==
    IF s = <<>> THEN Append(acc, cur)
    ELSE IF Head(s) = "\n" THEN SplitFrom(Tail(s), <<>>, Append(acc, cur))
    ELSE SplitFrom(Tail(s), Append(cur, Head(s)), acc)

split(s) == SplitFrom(s, <<>>, <<>>)

\* Array.prototype.join('\n')
RECURSIVE join(_)
join(a) ==
    IF a = <<>> THEN <<>>
    ELSE IF Len(a) = 1 THEN <<Head(a)>>
    ELSE <<Head(a), "\n">> \o join(Tail(a))

examples ==
    << "_Z3fooi",
       "_ZN3std6vectorIiSaIiEE9push_backERKi",
       "_ZNK6MyBaseD2Ev",
       "_RNvMsr_NtCs3ssYzQotkvD_3std4pathNtB5_7PathBuf3newCs15kBYyAo9fc_7mycrate" >>

\* the test of line 108 without the trim
InputIsEmpty_NoTrim(input) == input = <<>>

\* the test of line 108: input.trim() === ''
InputIsEmpty(input) == trim(input) = <<>>

\* the argument list of line 115 without the trim
mangledSymbols_NoTrim(input) == split(input)

\* the argument list of line 115: input.trim().split('\n')
mangledSymbols(input) == split(trim(input))

\* ------------------------------------------------------------------ status
MsgNone        == ""
MsgInit        == "Initializing wasm module..."
MsgLoaded      == "Wasm module loaded successfully."
MsgLoadFailed  == "Failed to load wasm module. See console for details."
MsgEnterInput  == "Please enter symbols to demangle."
MsgDemangling  == "Demangling..."
MsgPartial     == "Demangling completed, but some symbols could not be demangled."
MsgSuccess     == "Demangling completed successfully."
MsgInvokeError == "An error occurred during demangling."
MsgCopied      == "Copied to clipboard!"

\* StatusManager.setStatus: textContent and className of the status element
setStatus(message, isError) ==
    [textContent |-> message,
     className   |-> IF isError THEN "status error" ELSE "status"]

\* StatusManager.clearStatus
clearStatus == setStatus(MsgNone, FALSE)

\* ------------------------------------------------------------------ state
VARIABLES
    mangledInput,      \* elements.mangledInput.value
    demangledOutput,   \* elements.demangledOutput.value
    statusDiv,         \* the status element
    btnDisabled,       \* elements.demangleBtn.disabled
    demangleHadError,  \* DemanglerService.demangleHadError
    calls,             \* the calls of DemanglerService.demangle, by submit number
    nSubmits,          \* submits accepted so far
    copyPending,       \* clipboard writes not yet settled
    nCopies,           \* copy clicks so far
    timers             \* pending setTimeout callbacks of the copy confirmation

vars == <<mangledInput, demangledOutput, statusDiv, btnDisabled, demangleHadError,
          calls, nSubmits, copyPending, nCopies, timers>>

CallIds == 1 .. MaxSubmits

\* the line terminator appended by print and printErr
EOL == [op |-> 0, n |-> 0, ch |-> "eol", ph |-> "eol"]

\* the text of the n-th line the engine of call i emits, on channel ch,
\* during phase ph ("init": while the factory runs, "main": during callMain)
Text(i, n, ch, ph) == [op |-> i, n |-> n, ch |-> ch, ph |-> ph]

\* a call of demangle that has not been made yet
NoCall ==
    [pc |-> "none", input |-> <<>>, argv |-> <<>>, emitted |-> 0, batch |-> <<>>,
     factoryCalls |-> 0, mainCalls |-> 0, disabledBtn |-> FALSE, outcome |-> "none"]

\* a call of demangle that has returned: its locals and its engine instance
\* are gone, what it did is kept
Returned(c, outcome) ==
    [NoCall EXCEPT !.pc = "done", !.outcome = outcome,
                   !.factoryCalls = c.factoryCalls,
                   !.mainCalls = c.mainCalls, !.disabledBtn = c.disabledBtn]

Init ==
    /\ mangledInput = <<>>
    /\ demangledOutput = <<>>
    /\ statusDiv = [textContent |-> MsgNone, className |-> "status"]
    /\ btnDisabled = FALSE
    /\ demangleHadError = FALSE
    /\ calls = [i \in CallIds |-> NoCall]
    /\ nSubmits = 0
    /\ copyPending = 0
    /\ nCopies = 0
    /\ timers = 0

\* ------------------------------------------------------------------ user
\* the user edits the input field
TypeInput(s) ==
    /\ s # mangledInput
    /\ mangledInput' = s
    /\ UNCHANGED <<demangledOutput, statusDiv, btnDisabled, demangleHadError,
                   calls, nSubmits, copyPending, nCopies, timers>>

\* click on the submit control: handleDemangle -> demangle -> initializeWasm,
\* up to the await of the engine factory.  A disabled button fires no click.
Submit ==
    /\ ~btnDisabled
    /\ nSubmits < MaxSubmits
    /\ nSubmits' = nSubmits + 1
    /\ statusDiv' = setStatus(MsgInit, FALSE)
    /\ calls' = [calls EXCEPT ![nSubmits + 1] =
                    [NoCall EXCEPT !.pc = "init", !.input = mangledInput,
                                   !.factoryCalls = 1]]
    /\ UNCHANGED <<mangledInput, demangledOutput, btnDisabled, demangleHadError,
                   copyPending, nCopies, timers>>

\* ------------------------------------------------------------------ engine
\* Module.print of the engine of call i
print(i, ph) ==
    /\ demangledOutput' = demangledOutput \o <<Text(i, calls[i].emitted + 1, "out", ph), EOL>>
    /\ UNCHANGED demangleHadError

\* Module.printErr of the engine of call i
printErr(i, ph) ==
    /\ demangledOutput' = demangledOutput \o <<Text(i, calls[i].emitted + 1, "err", ph), EOL>>
    /\ demangleHadError' = TRUE

\* the engine writes a line while its factory is still running
ConstructEmit(i, ch) ==
    /\ calls[i].pc = "init"
    /\ calls[i].emitted < MaxEmit
    /\ IF ch = "err" THEN printErr(i, "init") ELSE print(i, "init")
    /\ calls' = [calls EXCEPT ![i].emitted = @ + 1]
    /\ UNCHANGED <<mangledInput, statusDiv, btnDisabled, nSubmits,
                   copyPending, nCopies, timers>>

\* the catch of initializeWasm without the error severity
FactoryReject_NotError(i) ==
    /\ calls[i].pc = "init"
    /\ statusDiv' = setStatus(MsgLoadFailed, FALSE)
    /\ calls' = [calls EXCEPT ![i] = Returned(calls[i], "loadfail")]
    /\ UNCHANGED <<mangledInput, demangledOutput, btnDisabled, demangleHadError,
                   nSubmits, copyPending, nCopies, timers>>

\* the factory rejects: catch of initializeWasm, then the return of line 105
FactoryReject(i) ==
    /\ calls[i].pc = "init"
    /\ statusDiv' = setStatus(MsgLoadFailed, TRUE)
    /\ calls' = [calls EXCEPT ![i] = Returned(calls[i], "loadfail")]
    /\ UNCHANGED <<mangledInput, demangledOutput, btnDisabled, demangleHadError,
                   nSubmits, copyPending, nCopies, timers>>

\* the validation of lines 108-110 without the error severity
FactoryResolveEmpty_NotError(i) ==
    /\ calls[i].pc = "init"
    /\ InputIsEmpty(calls[i].input)
    /\ statusDiv' = setStatus(MsgEnterInput, FALSE)
    /\ calls' = [calls EXCEPT ![i] = Returned(calls[i], "empty")]
    /\ UNCHANGED <<mangledInput, demangledOutput, btnDisabled, demangleHadError,
                   nSubmits, copyPending, nCopies, timers>>

\* the factory resolves and the input is empty after trimming: lines 93-94,
\* then 108-110
FactoryResolveEmpty(i) ==
    /\ calls[i].pc = "init"
    /\ InputIsEmpty(calls[i].input)
    /\ statusDiv' = setStatus(MsgEnterInput, TRUE)
    /\ calls' = [calls EXCEPT ![i] = Returned(calls[i], "empty")]
    /\ UNCHANGED <<mangledInput, demangledOutput, btnDisabled, demangleHadError,
                   nSubmits, copyPending, nCopies, timers>>

\* lines 113-120 without the reset of the error flag of line 114
FactoryResolveRun_NoFlagReset(i) ==
    /\ calls[i].pc = "init"
    /\ ~InputIsEmpty(calls[i].input)
    /\ demangledOutput' = <<>>
    /\ statusDiv' = setStatus(MsgDemangling, FALSE)
    /\ btnDisabled' = TRUE
    /\ calls' = [calls EXCEPT ![i].pc = "main",
                              ![i].argv = mangledSymbols(calls[i].input),
                              ![i].mainCalls = @ + 1,
                              ![i].disabledBtn = TRUE]
    /\ UNCHANGED <<mangledInput, demangleHadError, nSubmits, copyPending, nCopies, timers>>

\* the factory resolves and there is input: lines 93-94, then 113-120 up to
\* the await of callMain
FactoryResolveRun(i) ==
    /\ calls[i].pc = "init"
    /\ ~InputIsEmpty(calls[i].input)
    /\ demangledOutput' = <<>>
    /\ demangleHadError' = FALSE
    /\ statusDiv' = setStatus(MsgDemangling, FALSE)
    /\ btnDisabled' = TRUE
    /\ calls' = [calls EXCEPT ![i].pc = "main",
                              ![i].argv = mangledSymbols(calls[i].input),
                              ![i].mainCalls = @ + 1,
                              ![i].disabledBtn = TRUE]
    /\ UNCHANGED <<mangledInput, nSubmits, copyPending, nCopies, timers>>

\* the engine writes a line of the batch while callMain is pending
EngineEmit(i, ch) ==
    /\ calls[i].pc = "main"
    /\ calls[i].emitted < MaxEmit
    /\ IF ch = "err" THEN printErr(i, "main") ELSE print(i, "main")
    /\ calls' = [calls EXCEPT ![i].emitted = @ + 1,
                              ![i].batch = Append(@, Text(i, calls[i].emitted + 1, ch, "main"))]
    /\ UNCHANGED <<mangledInput, statusDiv, btnDisabled, nSubmits,
                   copyPending, nCopies, timers>>

\* lines 122-126 without the finally
CallMainResolve_NoFinally(i) ==
    /\ calls[i].pc = "main"
    /\ statusDiv' = IF demangleHadError THEN setStatus(MsgPartial, TRUE)
                    ELSE setStatus(MsgSuccess, FALSE)
    /\ calls' = [calls EXCEPT ![i] =
                    Returned(calls[i], IF demangleHadError THEN "partial" ELSE "success")]
    /\ UNCHANGED <<mangledInput, demangledOutput, btnDisabled, demangleHadError,
                   nSubmits, copyPending, nCopies, timers>>

\* callMain resolves: lines 122-126, then the finally
CallMainResolve(i) ==
    /\ calls[i].pc = "main"
    /\ statusDiv' = IF demangleHadError THEN setStatus(MsgPartial, TRUE)
                    ELSE setStatus(MsgSuccess, FALSE)
    /\ btnDisabled' = FALSE
    /\ calls' = [calls EXCEPT ![i] =
                    Returned(calls[i], IF demangleHadError THEN "partial" ELSE "success")]
    /\ UNCHANGED <<mangledInput, demangledOutput, demangleHadError,
                   nSubmits, copyPending, nCopies, timers>>

\* the catch of lines 127-129 without the finally
CallMainReject_NoFinally(i) ==
    /\ calls[i].pc = "main"
    /\ statusDiv' = setStatus(MsgInvokeError, TRUE)
    /\ calls' = [calls EXCEPT ![i] = Returned(calls[i], "error")]
    /\ UNCHANGED <<mangledInput, demangledOutput, btnDisabled, demangleHadError,
                   nSubmits, copyPending, nCopies, timers>>

\* callMain rejects: the catch of lines 127-129, then the finally
CallMainReject(i) ==
    /\ calls[i].pc = "main"
    /\ statusDiv' = setStatus(MsgInvokeError, TRUE)
    /\ btnDisabled' = FALSE
    /\ calls' = [calls EXCEPT ![i] = Returned(calls[i], "error")]
    /\ UNCHANGED <<mangledInput, demangledOutput, demangleHadError,
                   nSubmits, copyPending, nCopies, timers>>

\* ------------------------------------------------------------------ other controls
\* handleClear leaving the status line as it is
handleClear_KeepStatus ==
    /\ mangledInput' = <<>>
    /\ demangledOutput' = <<>>
    /\ UNCHANGED <<statusDiv, btnDisabled, demangleHadError, calls, nSubmits,
                   copyPending, nCopies, timers>>

\* handleClear re-enabling the submit control as well
handleClear_Enables ==
    /\ mangledInput' = <<>>
    /\ demangledOutput' = <<>>
    /\ statusDiv' = clearStatus
    /\ btnDisabled' = FALSE
    /\ UNCHANGED <<demangleHadError, calls, nSubmits,
                   copyPending, nCopies, timers>>

handleClear ==
    /\ mangledInput' = <<>>
    /\ demangledOutput' = <<>>
    /\ statusDiv' = clearStatus
    /\ UNCHANGED <<btnDisabled, demangleHadError, calls, nSubmits,
                   copyPending, nCopies, timers>>

\* handleLoadExamples emptying the output as well
handleLoadExamples_ClearsOutput ==
    /\ mangledInput' = join(examples)
    /\ demangledOutput' = <<>>
    /\ UNCHANGED <<statusDiv, btnDisabled, demangleHadError,
                   calls, nSubmits, copyPending, nCopies, timers>>

handleLoadExamples ==
    /\ mangledInput' = join(examples)
    /\ UNCHANGED <<demangledOutput, statusDiv, btnDisabled, demangleHadError,
                   calls, nSubmits, copyPending, nCopies, timers>>

\* click on copy: returns at once on empty output, else awaits the clipboard
handleCopyToClipboard ==
    /\ nCopies < MaxCopies
    /\ nCopies' = nCopies + 1
    /\ copyPending' = IF demangledOutput = <<>> THEN copyPending ELSE copyPending + 1
    /\ UNCHANGED <<mangledInput, demangledOutput, statusDiv, btnDisabled,
                   demangleHadError, calls, nSubmits, timers>>

\* the clipboard write resolves: lines 205-206
ClipboardResolve ==
    /\ copyPending > 0
    /\ copyPending' = copyPending - 1
    /\ statusDiv' = setStatus(MsgCopied, FALSE)
    /\ timers' = timers + 1
    /\ UNCHANGED <<mangledInput, demangledOutput, btnDisabled, demangleHadError,
                   calls, nSubmits, nCopies>>

\* the catch of lines 207-209 clearing the status
ClipboardReject_ClearsStatus ==
    /\ copyPending > 0
    /\ copyPending' = copyPending - 1
    /\ statusDiv' = clearStatus
    /\ UNCHANGED <<mangledInput, demangledOutput, btnDisabled,
                   demangleHadError, calls, nSubmits, nCopies, timers>>

\* the clipboard write rejects: the catch of lines 207-209
ClipboardReject ==
    /\ copyPending > 0
    /\ copyPending' = copyPending - 1
    /\ UNCHANGED <<mangledInput, demangledOutput, statusDiv, btnDisabled,
                   demangleHadError, calls, nSubmits, nCopies, timers>>

\* the timer of line 206 without the clearStatus
CopyTimerFires_NoClear ==
    /\ timers > 0
    /\ timers' = timers - 1
    /\ UNCHANGED <<mangledInput, demangledOutput, statusDiv, btnDisabled, demangleHadError,
                   calls, nSubmits, copyPending, nCopies>>

\* the timer of line 206 fires
CopyTimerFires ==
    /\ timers > 0
    /\ timers' = timers - 1
    /\ statusDiv' = clearStatus
    /\ UNCHANGED <<mangledInput, demangledOutput, btnDisabled, demangleHadError,
                   calls, nSubmits, copyPending, nCopies>>

Next ==
    \/ \E s \in TypedInputs : TypeInput(s)
    \/ Submit
    \/ \E i \in CallIds, ch \in {"out", "err"} : ConstructEmit(i, ch)
    \/ \E i \in CallIds : FactoryReject(i)
    \/ \E i \in CallIds : FactoryResolveEmpty(i)
    \/ \E i \in CallIds : FactoryResolveRun(i)
    \/ \E i \in CallIds, ch \in {"out", "err"} : EngineEmit(i, ch)
    \/ \E i \in CallIds : CallMainResolve(i)
    \/ \E i \in CallIds : CallMainReject(i)
    \/ handleClear
    \/ handleLoadExamples
    \/ handleCopyToClipboard
    \/ ClipboardResolve
    \/ ClipboardReject
    \/ CopyTimerFires

Spec == Init /\ [][Next]_vars

\* ------------------------------------------------------------------ settling
\* the promise of the engine factory of call i settles
FactorySettles(i) ==
    FactoryReject(i) \/ FactoryResolveEmpty(i) \/ FactoryResolveRun(i)

\* the promise of callMain of call i settles
CallMainSettles(i) ==
    CallMainResolve(i) \/ CallMainReject(i)

\* the steps that read or write a call of demangle, the submit control, the
\* output or the error flag; the input is set by the example and clear controls
NextSettling ==
    \/ Submit
    \/ \E i \in CallIds, ch \in {"out", "err"} : ConstructEmit(i, ch)
    \/ \E i \in CallIds : FactoryReject(i)
    \/ \E i \in CallIds : FactoryResolveEmpty(i)
    \/ \E i \in CallIds : FactoryResolveRun(i)
    \/ \E i \in CallIds, ch \in {"out", "err"} : EngineEmit(i, ch)
    \/ \E i \in CallIds : CallMainResolve(i)
    \/ \E i \in CallIds : CallMainReject(i)
    \/ handleClear
    \/ handleLoadExamples

\* every engine construction and every batch invocation settles
SpecSettling ==
    /\ Init
    /\ [][NextSettling]_vars
    /\ \A i \in CallIds : WF_vars(FactorySettles(i))
    /\ \A i \in CallIds : WF_vars(CallMainSettles(i))

\* ------------------------------------------------------------------ splitting alone
\* the page with any text of up to SplitLen characters in the input field,
\* followed through submits only
InitSplit ==
    /\ mangledInput \in StringsUpTo(SplitLen)
    /\ demangledOutput = <<>>
    /\ statusDiv = [textContent |-> MsgNone, className |-> "status"]
    /\ btnDisabled = FALSE
    /\ demangleHadError = FALSE
    /\ calls = [i \in CallIds |-> NoCall]
    /\ nSubmits = 0
    /\ copyPending = 0
    /\ nCopies = 0
    /\ timers = 0

NextSplit ==
    \/ Submit
    \/ \E i \in CallIds : FactoryResolveEmpty(i)
    \/ \E i \in CallIds : FactoryResolveRun(i)
    \/ \E i \in CallIds : CallMainResolve(i)
    \/ handleLoadExamples

SpecSplit == InitSplit /\ [][NextSplit]_vars

\* ------------------------------------------------------------------ vocabulary of the properties
StatusIs(message, isError) ==
    /\ statusDiv.textContent = message
    /\ statusDiv.className = (IF isError THEN "status error" ELSE "status")

AllWhitespace(s) == \A k \in DOMAIN s : s[k] \in {" ", "\n"}

NonePending == \A i \in CallIds : calls[i].pc \notin {"init", "main"}

HasErrLine(batch) == \E k \in DOMAIN batch : batch[k].ch = "err"

\* out holds the lines of batch, each followed by the terminator, in order,
\* from position from on
RECURSIVE HoldsLines(_, _, _)
HoldsLines(out, batch, from) ==
    IF batch = <<>> THEN TRUE
    ELSE \E p \in from .. (Len(out) - 1) :
            /\ out[p] = Head(batch)
            /\ out[p + 1] = EOL
            /\ HoldsLines(out, Tail(batch), p + 2)

\* ------------------------------------------------------------------ C1
\* C1: whenever a call of demangle has been accepted and has not returned
\* (engine under construction or callMain pending), the submit control is
\* disabled.
C1_DisabledWhileInFlight ==
    \A i \in CallIds : calls[i].pc \in {"init", "main"} => btnDisabled

\* ------------------------------------------------------------------ C2
\* C2: at most one batch invocation (callMain) is pending at any time.
C2_OneBatchPending ==
    Cardinality({i \in CallIds : calls[i].pc = "main"}) <= 1

\* ------------------------------------------------------------------ C3
\* C3: at most one engine instance is under construction at any time.
C3_OneConstruction ==
    Cardinality({i \in CallIds : calls[i].pc = "init"}) <= 1

\* ------------------------------------------------------------------ C4
\* C4: in every state in which every call of demangle has returned, the
\* submit control is enabled.
C4_EnabledWhenNonePending ==
    NonePending => ~btnDisabled

\* every call has returned, one through the catch of callMain and one past
\* a completed callMain
C4_Witness ==
    /\ NonePending
    /\ \E i \in CallIds : calls[i].outcome = "error"
    /\ \E i \in CallIds : calls[i].outcome \in {"success", "partial"}

\* ------------------------------------------------------------------ C5
\* C5: when a call that invoked the engine concludes, the output buffer holds
\* every line the engine emitted for its batch, each followed by the line
\* terminator, in emission order.
C5_OutputHoldsBatch ==
    [][\A i \in CallIds :
          (calls[i].pc = "main" /\ calls'[i].pc = "done")
              => HoldsLines(demangledOutput', calls[i].batch, 1)]_vars

\* ------------------------------------------------------------------ C6
\* C6: when a batch concludes, every line in the output buffer was emitted by
\* the engine of that call during that batch.
C6_OutputFresh ==
    [][\A i \in CallIds :
          (calls[i].pc = "main" /\ calls'[i].pc = "done")
              => \A k \in DOMAIN demangledOutput' :
                    \/ demangledOutput'[k] = EOL
                    \/ /\ demangledOutput'[k].op = i
                       /\ demangledOutput'[k].ph = "main"]_vars

\* ------------------------------------------------------------------ C7
\* C7: a batch during which the engine wrote to its error channel and whose
\* invocation completes reports the partial-failure status at error severity.
C7_ErrorLineGivesPartial ==
    [][\A i \in CallIds :
          (/\ calls[i].pc = "main"
           /\ calls'[i].pc = "done"
           /\ calls'[i].outcome # "error"
           /\ HasErrLine(calls[i].batch))
              => StatusIs(MsgPartial, TRUE)']_vars

\* ------------------------------------------------------------------ C8
\* C8: a batch whose invocation completes and during which the engine wrote
\* nothing to its error channel reports success at normal severity; the
\* partial-failure status is reported only for a batch with error output.
C8_NoErrorLineGivesSuccess ==
    [][\A i \in CallIds :
          (/\ calls[i].pc = "main"
           /\ calls'[i].pc = "done"
           /\ calls'[i].outcome # "error")
              => /\ ~HasErrLine(calls[i].batch) => StatusIs(MsgSuccess, FALSE)'
                 /\ StatusIs(MsgPartial, TRUE)' => HasErrLine(calls[i].batch)]_vars

\* ------------------------------------------------------------------ C9
\* C9 as stated: a call whose input is empty or all white space never invokes
\* callMain, never disables the submit control, and reports the validation
\* status at error severity when it returns.
C9_EmptyInputOriginal ==
    [][\A i \in CallIds :
          (calls[i].pc = "init" /\ AllWhitespace(calls[i].input))
              => /\ calls'[i].pc # "main"
                 /\ calls'[i].mainCalls = 0
                 /\ ~calls'[i].disabledBtn
                 /\ calls'[i].pc = "done"
                        => /\ StatusIs(MsgEnterInput, TRUE)'
                           /\ btnDisabled' = btnDisabled]_vars

\* C9 amended: a call whose input is empty or all white space never invokes
\* callMain and never disables the submit control; when it returns it reports
\* the validation status at error severity if its engine was constructed, and
\* the load-failure status at error severity if the construction failed.
C9_EmptyInput ==
    [][\A i \in CallIds :
          (calls[i].pc = "init" /\ AllWhitespace(calls[i].input))
              => /\ calls'[i].pc # "main"
                 /\ calls'[i].mainCalls = 0
                 /\ ~calls'[i].disabledBtn
                 /\ calls'[i].pc = "done"
                        => /\ btnDisabled' = btnDisabled
                           /\ IF calls'[i].outcome = "loadfail"
                              THEN StatusIs(MsgLoadFailed, TRUE)'
                              ELSE StatusIs(MsgEnterInput, TRUE)']_vars

\* a call has returned through the validation of line 108 and its status is
\* on display
C9_Witness ==
    \E i \in CallIds :
        /\ calls[i].pc = "done"
        /\ calls[i].outcome = "empty"
        /\ calls[i].mainCalls = 0
        /\ StatusIs(MsgEnterInput, TRUE)

\* ------------------------------------------------------------------ C10
\* C10: when the engine factory rejects, the status becomes the load-failure
\* message at error severity and the call returns; it has invoked callMain
\* never, the factory once, and has not disabled the submit control.
C10_LoadFailure ==
    /\ [](\A i \in CallIds :
            calls[i].outcome = "loadfail"
                => /\ calls[i].pc = "done"
                   /\ calls[i].mainCalls = 0
                   /\ calls[i].factoryCalls = 1
                   /\ ~calls[i].disabledBtn)
    /\ [][\A i \in CallIds :
            (calls[i].pc = "init" /\ calls'[i].outcome = "loadfail")
                => /\ StatusIs(MsgLoadFailed, TRUE)'
                   /\ btnDisabled' = btnDisabled]_vars

\* a construction has failed and its status is on display
C10_Witness ==
    \E i \in CallIds :
        /\ calls[i].outcome = "loadfail"
        /\ StatusIs(MsgLoadFailed, TRUE)

\* ------------------------------------------------------------------ C11
\* the entries of a joined by line breaks
RECURSIVE JoinLines(_)
JoinLines(a) ==
    IF a = <<>> THEN <<>>
    ELSE IF Len(a) = 1 THEN Head(a)
    ELSE Head(a) \o <<"\n">> \o JoinLines(Tail(a))

\* a is s without its leading and trailing white space, cut at the line
\* breaks: the part of s between its first and its last character that is not
\* white space, as entries without line breaks, one more than the line breaks
IsSplitOfTrimmed(s, a) ==
    \E lo \in DOMAIN s, hi \in DOMAIN s :
        /\ lo <= hi
        /\ s[lo] \notin {" ", "\n"}
        /\ s[hi] \notin {" ", "\n"}
        /\ \A k \in 1 .. (lo - 1) : s[k] \in {" ", "\n"}
        /\ \A k \in (hi + 1) .. Len(s) : s[k] \in {" ", "\n"}
        /\ JoinLines(a) = SubSeq(s, lo, hi)
        /\ \A j \in DOMAIN a : \A k \in DOMAIN a[j] : a[j][k] # "\n"
        /\ Len(a) = 1 + Cardinality({k \in lo .. hi : s[k] = "\n"})

\* C11: the symbol sequence handed to callMain is the input trimmed of leading
\* and trailing white space and split on line breaks: order kept, interior
\* blank lines as empty entries, entries not trimmed.
C11_SymbolsAreSplitInput ==
    \A i \in CallIds :
        calls[i].pc = "main" => IsSplitOfTrimmed(calls[i].input, calls[i].argv)

\* an input with leading white space and an interior blank line is in flight
C11_Witness ==
    \E i \in CallIds :
        /\ calls[i].pc = "main"
        /\ calls[i].input = <<" ", "x", "\n", "\n", "x">>
        /\ calls[i].argv = << <<"x">>, <<>>, <<"x">> >>

\* ------------------------------------------------------------------ C12
\* input, output and status are empty, the status at normal severity
ClearedState ==
    /\ mangledInput = <<>>
    /\ demangledOutput = <<>>
    /\ statusDiv.textContent = ""
    /\ statusDiv.className = "status"

\* C12: a clear leaves input, output and status empty at normal severity, and
\* a clear from that state changes nothing (a second clear is a no-op).
C12_ClearIdempotent ==
    [][/\ handleClear => ClearedState'
       /\ (ClearedState /\ handleClear) => UNCHANGED vars]_vars

\* the status a submit had set is gone without any copy timer: a clear acted
C12_Witness ==
    /\ ClearedState
    /\ nSubmits > 0
    /\ nCopies = 0

\* ------------------------------------------------------------------ C13
\* the four example lines joined by line breaks
ExampleInput ==
    << "_Z3fooi", "\n",
       "_ZN3std6vectorIiSaIiEE9push_backERKi", "\n",
       "_ZNK6MyBaseD2Ev", "\n",
       "_RNvMsr_NtCs3ssYzQotkvD_3std4pathNtB5_7PathBuf3newCs15kBYyAo9fc_7mycrate" >>

\* C13: a load-example step (any step that puts an example symbol into the
\* input) sets the input to the four example lines joined by line breaks and
\* leaves output, status, error flag, submit control, calls in flight and the
\* clipboard writes and timers unchanged.
C13_LoadExampleFrame ==
    [][(\/ handleLoadExamples
        \/ /\ mangledInput' # mangledInput
           /\ \E k \in DOMAIN mangledInput' : mangledInput'[k] \notin {"x", " ", "\n"})
          => /\ mangledInput' = ExampleInput
             /\ UNCHANGED <<demangledOutput, statusDiv, btnDisabled, demangleHadError,
                            calls, nSubmits, copyPending, nCopies, timers>>]_vars

\* the examples were loaded over another input while a batch with output and
\* an error line is in flight
C13_Witness ==
    /\ mangledInput = ExampleInput
    /\ btnDisabled
    /\ demangleHadError
    /\ demangledOutput # <<>>
    /\ \E i \in CallIds : calls[i].pc = "main" /\ calls[i].input = <<"x">>

\* ------------------------------------------------------------------ C14
\* C14: a clipboard write that fails (settles without scheduling a timer)
\* leaves the status message and severity as they were and schedules no
\* delayed clear.
C14_CopyFailureSilent ==
    [][(\/ ClipboardReject
        \/ (copyPending' < copyPending /\ timers' = timers))
          => /\ statusDiv' = statusDiv
             /\ timers' = timers]_vars

\* the one copy has settled, no timer is pending, and the status of the batch
\* in flight is still on display
C14_Witness ==
    /\ nCopies > 0
    /\ copyPending = 0
    /\ timers = 0
    /\ nSubmits = 1
    /\ demangledOutput # <<>>
    /\ StatusIs(MsgDemangling, FALSE)

\* ------------------------------------------------------------------ C15
\* C15: in the step that issues callMain, the output buffer is empty, the
\* error flag is false, the submit control is disabled and the status is
\* 'Demangling...' at normal severity.
C15_ResetThenInvoke ==
    [][\A i \in CallIds :
          (calls[i].pc = "init" /\ calls'[i].pc = "main")
              => /\ demangledOutput' = <<>>
                 /\ demangleHadError' = FALSE
                 /\ btnDisabled' = TRUE
                 /\ StatusIs(MsgDemangling, FALSE)']_vars

\* callMain has just been issued after an earlier batch had ended with the
\* error flag set
C15_Witness ==
    \E i, j \in CallIds :
        /\ calls[i].pc = "main"
        /\ calls[i].emitted = 0
        /\ calls[j].outcome = "partial"
        /\ demangledOutput = <<>>
        /\ ~demangleHadError

\* ------------------------------------------------------------------ C16
\* C16: while a batch is between its reset and its read of the error flag
\* (its callMain is pending), the flag never changes from true to false.
C16_FlagMonotonic ==
    [][(/\ demangleHadError
        /\ \E i \in CallIds : calls[i].pc = "main" /\ calls'[i].pc = "main")
          => demangleHadError']_vars

\* ------------------------------------------------------------------ C18
\* C18: a clear leaves the submit control, the error flag and every call in
\* flight as they were while it empties input, output and status; and every
\* call whose callMain is pending, cleared or not, ends by reporting one of
\* the three final statuses and enabling the submit control.
C18_ClearKeepsBatch ==
    [][/\ (\/ handleClear
           \/ (ClearedState' /\ ~ClearedState /\ timers' = timers))
          => /\ ClearedState'
             /\ btnDisabled' = btnDisabled
             /\ demangleHadError' = demangleHadError
             /\ calls' = calls
       /\ \A i \in CallIds :
            (calls[i].pc = "main" /\ calls'[i].pc = "done")
                => /\ ~btnDisabled'
                   /\ \/ StatusIs(MsgSuccess, FALSE)'
                      \/ StatusIs(MsgPartial, TRUE)'
                      \/ StatusIs(MsgInvokeError, TRUE)']_vars

\* a clear has acted while a callMain is pending: the status 'Demangling...'
\* is gone, the control is still disabled
C18_Witness ==
    /\ ClearedState
    /\ btnDisabled
    /\ nCopies = 0
    /\ \E i \in CallIds : calls[i].pc = "main" /\ calls[i].emitted > 0

\* ------------------------------------------------------------------ C19
\* C19: the status is at error severity exactly when its message is one of
\* the four failure messages; every other message is at normal severity.
C19_SeverityMatchesMessage ==
    /\ statusDiv.className \in {"status", "status error"}
    /\ statusDiv.textContent \in
          {"", "Initializing wasm module...", "Wasm module loaded successfully.",
           "Failed to load wasm module. See console for details.",
           "Please enter symbols to demangle.", "Demangling...",
           "Demangling completed, but some symbols could not be demangled.",
           "Demangling completed successfully.",
           "An error occurred during demangling.", "Copied to clipboard!"}
    /\ statusDiv.className = "status error"
          <=> statusDiv.textContent \in
                {"Failed to load wasm module. See console for details.",
                 "Please enter symbols to demangle.",
                 "Demangling completed, but some symbols could not be demangled.",
                 "An error occurred during demangling."}

\* a failure message is on display while a copy confirmation timer is pending
C19_Witness ==
    /\ statusDiv.className = "status error"
    /\ statusDiv.textContent = "Please enter symbols to demangle."
    /\ timers > 0

\* ------------------------------------------------------------------ C20
\* the statuses a call of demangle reports when it returns
DemangleStatuses ==
    {MsgEnterInput, MsgLoadFailed, MsgSuccess, MsgPartial, MsgInvokeError}

\* a step of a copy: the click, the settling of its clipboard write, its timer
CopyStep ==
    \/ nCopies' > nCopies
    \/ copyPending' < copyPending
    \/ timers' < timers

\* C20 as stated: no step of a copy replaces or erases a status reported by a
\* call of demangle.
C20_CopyKeepsDemangleStatusOriginal ==
    [][(CopyStep /\ statusDiv.textContent \in DemangleStatuses)
          => statusDiv' = statusDiv]_vars

\* C20 amended: a copy changes the status in two steps only, whatever is on
\* display: the clipboard write that succeeds sets 'Copied to clipboard!' at
\* normal severity, and the timer it scheduled empties the status; the click
\* and a failed write leave the status as it is.
C20_CopyStatusChanges ==
    [][/\ nCopies' > nCopies => statusDiv' = statusDiv
       /\ copyPending' < copyPending
            => \/ (timers' = timers /\ statusDiv' = statusDiv)
               \/ (timers' = timers + 1 /\ StatusIs(MsgCopied, FALSE)')
       /\ timers' < timers => StatusIs(MsgNone, FALSE)']_vars

\* the copy confirmation is on display, its timer pending, after a batch had
\* reported its final status
C20_Witness ==
    /\ StatusIs(MsgCopied, FALSE)
    /\ timers > 0
    /\ \E i \in CallIds : calls[i].outcome \in {"success", "partial", "error"}
    /\ \A i \in CallIds : calls[i].pc \in {"none", "done"}

\* ------------------------------------------------------------------ C17
\* C17: when every construction and every batch invocation settles, every
\* accepted submit returns and a disabled submit control is enabled again;
\* and the control is disabled only while some callMain is pending.
C17_SubmitConcludes ==
    /\ \A i \in CallIds : (calls[i].pc \in {"init", "main"}) ~> (calls[i].pc = "done")
    /\ btnDisabled ~> ~btnDisabled
    /\ [](btnDisabled => \E i \in CallIds : calls[i].pc = "main")

\* every submit has returned, one of them through callMain, and the control
\* is enabled
C17_Witness ==
    /\ nSubmits = MaxSubmits
    /\ \A i \in CallIds : calls[i].pc = "done"
    /\ \E i \in CallIds : calls[i].mainCalls = 1
    /\ ~btnDisabled
====
